---- MODULE Spec2Model ----
(***************************************************************************)
(* Model of openmm/python/analyze-parallel-tempering-schemes.py: the       *)
(* replica-mixing estimators (show_mixing_statistics,                      *)
(* show_mixing_statistics_with_error, compute_relaxation_time,             *)
(* average_end_to_end_time) and the batch driver under __main__.           *)
(*                                                                         *)
(* Numbers.  Transition counts are multiples of 0.5; Nij holds them in     *)
(* units of one half (the integer h stands for h * 0.5).  A quotient is    *)
(* kept as the unreduced fraction [num, den]; den = 0 is what IEEE         *)
(* division yields for a zero divisor: NaN for 0/0, Inf otherwise.         *)
(* numpy.linalg.eigvals is modelled by what it returns for a row-          *)
(* stochastic matrix: eigenvalue 1 has multiplicity equal to the number of *)
(* recurrent classes, every other eigenvalue is below 1; on a matrix       *)
(* holding NaN or Inf it raises LinAlgError.                               *)
(***************************************************************************)
EXTENDS Integers, Sequences, FiniteSets, TLC

\* ------------------------------------------------------------------ bounds
MaxStates == 3
MaxIter == 5
MaxArrays == 20000
MaxBlocks == 3
MaxExtraBins == 1
MaxDriverStates == 2
MaxExtraIter == 1
MaxPeriod == 2

\* ------------------------------------------------------- program constants
DefaultNBlocks == 10
DriverNBlocks == 10
DriverNBins == 50
NPrefixes == 2

\* ---------------------------------------------------------------- numbers
Frac(a, b) == [num |-> a, den |-> b]
One == Frac(1, 1)
Zero == Frac(0, 1)
IsNaN(x) == x.den = 0 /\ x.num = 0
IsInf(x) == x.den = 0 /\ x.num # 0
IsFinite(x) == x.den # 0
FracAdd(x, y) ==
  IF x.den = y.den THEN Frac(x.num + y.num, x.den)
  ELSE Frac(x.num * y.den + y.num * x.den, x.den * y.den)
FracEq(x, y) == IsFinite(x) /\ IsFinite(y) /\ x.num * y.den = y.num * x.den

range(lo, hi) == lo .. (hi - 1)

\* ------------------------------------------------------------------ inputs
\* The number of arrays of shape [niterations, nstates] with entries in
\* [0, nstates), counted no further than the cap.
RECURSIVE ArraysOfShape(_, _)
ArraysOfShape(cells, nstates) ==
  IF cells = 0 THEN 1
  ELSE LET rest == ArraysOfShape(cells - 1, nstates)
       IN  IF rest > MaxArrays THEN rest ELSE nstates * rest

Shapes ==
  { sh \in (0..MaxIter) \X (0..MaxStates) :
      ArraysOfShape(sh[1] * sh[2], sh[2]) <= MaxArrays }

StatesArrays ==
  UNION { { [niterations |-> sh[1], nstates |-> sh[2], at |-> a] :
              a \in [range(0, sh[1]) -> [range(0, sh[2]) -> range(0, sh[2])]] } :
          sh \in Shapes }

\* --------------------------------------------------- transition counting
zeros(n) == [i \in range(0, n) |-> [j \in range(0, n) |-> 0]]

AddPairOneSided(N, p) == [N EXCEPT ![p[1]][p[2]] = @ + 1]

AddPair(N, p) ==
  LET N1 == [N EXCEPT ![p[1]][p[2]] = @ + 1]
  IN  [N1 EXCEPT ![p[2]][p[1]] = @ + 1]

\* The loop body applied to pairs[lo], ..., pairs[hi], in that order.  The
\* first half is evaluated (DOMAIN) before the second half starts from it,
\* which keeps the evaluation depth logarithmic in the number of pairs.
RECURSIVE AccumulateRange(_, _, _, _)
AccumulateRange(N, pairs, lo, hi) ==
  IF lo > hi THEN N
  ELSE IF lo = hi THEN AddPair(N, pairs[lo])
  ELSE LET mid == (lo + hi) \div 2
           first == AccumulateRange(N, pairs, lo, mid)
       IN  IF DOMAIN first = DOMAIN N
             THEN AccumulateRange(first, pairs, mid + 1, hi)
             ELSE first

\* Nij after the first m passes of the loop body.
Accumulate(N, pairs, m) == AccumulateRange(N, pairs, 1, m)

StatePairsShort(s, lo, hi) ==
  LET w == s.nstates
      len == IF hi - 1 > lo THEN (hi - 1 - lo) * w ELSE 0
  IN  [m \in 1..len |->
         LET iteration == lo + ((m - 1) \div w)
             ireplica == (m - 1) % w
         IN  << s.at[iteration][ireplica], s.at[iteration + 1][ireplica] >>]

\* states is indexed [iteration, replica]; iteration is the outer loop.
StatePairs(s, lo, hi) ==
  LET w == s.nstates
      len == IF hi > lo THEN (hi - lo) * w ELSE 0
  IN  [m \in 1..len |->
         LET iteration == lo + ((m - 1) \div w)
             ireplica == (m - 1) % w
         IN  << s.at[iteration][ireplica], s.at[iteration + 1][ireplica] >>]

\* bin_it is indexed [replica, iteration]; replica is the outer loop.
BinPairs(bin_it) ==
  LET steps == IF bin_it.niterations > 1 THEN bin_it.niterations - 1 ELSE 0
      len == bin_it.nstates * steps
  IN  [m \in 1..len |->
         LET ireplica == (m - 1) \div steps
             iteration == (m - 1) % steps
         IN  << bin_it.at[ireplica][iteration], bin_it.at[ireplica][iteration + 1] >>]

RECURSIVE SumRange(_, _, _)
SumRange(row, lo, hi) ==
  IF lo > hi THEN 0
  ELSE IF lo = hi THEN row[lo]
  ELSE LET mid == (lo + hi) \div 2
       IN  SumRange(row, lo, mid) + SumRange(row, mid + 1, hi)

\* Nij[i,:].sum()
RowSum(N, n, i) == SumRange(N[i], 0, n - 1)

\* Tij[istate,:] = Nij[istate,:] / Nij[istate,:].sum()
NormalizeRows(N, n) ==
  [i \in range(0, n) |->
     LET total == RowSum(N, n, i)
     IN  [j \in range(0, n) |-> Frac(N[i][j], total)]]

\* Tij[ibin,ibin] = 1.0; if Ni[ibin] > 0.0: Tij[ibin,:] = Nij[ibin,:] / Ni[ibin]
NormalizeRowsGuarded(N, n) ==
  [i \in range(0, n) |->
     LET Ni == RowSum(N, n, i)
     IN  IF Ni > 0
       THEN [j \in range(0, n) |-> Frac(N[i][j], Ni)]
       ELSE [j \in range(0, n) |-> IF j = i THEN One ELSE Zero]]

\* ------------------------------------------------------------ eigenvalues
HasNonFinite(T, n) == \E i, j \in range(0, n) : ~IsFinite(T[i][j])

RECURSIVE Closure(_, _, _, _)
Closure(T, n, S, k) ==
  LET grown == S \cup { j \in range(0, n) : \E i \in S : T[i][j].num > 0 }
  IN  IF k = 0 \/ grown = S THEN S ELSE Closure(T, n, grown, k - 1)

Reach(T, n, i) == Closure(T, n, {i}, n)

RecurrentClasses(T, n) ==
  { C \in { Reach(T, n, i) : i \in range(0, n) } :
      \A j \in C : Reach(T, n, j) = C }

\* mu = eigvals(Tij); mu = -sort(-mu); mu[1]
\*   "LinAlgError"  eigvals refuses the matrix
\*   "IndexError"   mu has fewer than two entries
\*   "unity"        mu[1] >= 1
\*   "below"        mu[1] < 1
SecondEigenvalue(T, n, emptyRaises) ==
  IF HasNonFinite(T, n) THEN "LinAlgError"
  ELSE IF n = 0 /\ emptyRaises THEN "LinAlgError"
  ELSE IF n < 2 THEN "IndexError"
  ELSE IF Cardinality(RecurrentClasses(T, n)) >= 2 THEN "unity"
  ELSE "below"

Raised(e) == e \in {"LinAlgError", "IndexError"}

\* 1.0 / (1.0 - mu[1])
Timescale(e) == IF e = "unity" THEN "inf" ELSE "finite"

\* ------------------------------------------- one Nij/Tij/eigenvalue pass
\* The record keeps what one pass over range(lo, hi) builds: the pairs it
\* reads in loop order, Nij, Tij, the outcome of the eigenvalue lookup and
\* the value of 1.0 / (1.0 - mu[1]) where the code evaluates it.
Pass(kind, block, lo, hi, pairs, n, N, T, eig, tau) ==
  [kind |-> kind, block |-> block, lo |-> lo, hi |-> hi, pairs |-> pairs,
   n |-> n, Nij |-> N, Tij |-> T, eig |-> eig, tau |-> tau]

MixingPass(kind, block, s, lo, hi, emptyRaises, always) ==
  LET n == s.nstates
      pairs == StatePairs(s, lo, hi)
      N == Accumulate(zeros(n), pairs, Len(pairs))
      T == NormalizeRows(N, n)
      eig == SecondEigenvalue(T, n, emptyRaises)
      tau == IF Raised(eig) THEN "none"
             ELSE IF always \/ eig = "below" THEN Timescale(eig)
             ELSE "none"
  IN  Pass(kind, block, lo, hi, pairs, n, N, T, eig, tau)

NoResult ==
  [fn |-> "none", outcome |-> "none", nblocks |-> 0, nbins |-> 0,
   mats |-> << >>, printed |-> "none", tau |-> "none", dtau |-> "none",
   events |-> << >>, tau_end |-> Zero, dtau_end2 |-> Zero]

Printed(eig) ==
  IF eig = "unity" THEN "decomposable"
  ELSE IF eig = "below" THEN "timescale"
  ELSE "none"

\* ------------------------------------------------ show_mixing_statistics
show_mixing_statistics(s, emptyRaises) ==
  LET m == MixingPass("whole", 0, s, 0, s.niterations - 1, emptyRaises, FALSE)
  IN  [NoResult EXCEPT
         !.fn = "show_mixing_statistics",
         !.mats = << m >>,
         !.outcome = IF Raised(m.eig) THEN m.eig ELSE "returned",
         !.printed = Printed(m.eig)]

\* ------------------------------------- show_mixing_statistics_with_error
BlockLoOverlapping(blocksize, block_index) ==
  IF block_index = 0 THEN 0 ELSE blocksize * block_index - 1

BlockHiShort(blocksize, block_index) == blocksize * (block_index + 1) - 2

BlockLo(blocksize, block_index) == blocksize * block_index
BlockHi(blocksize, block_index) == blocksize * (block_index + 1) - 1

\* states[(blocksize*block_index):(blocksize*(block_index+1)),:] with
\* blocksize = int(niterations) / int(nblocks): the iterations in the slice.
BlockSlice(niterations, nblocks, block_index) ==
  LET blocksize == niterations \div nblocks
  IN  range(0, niterations)
        \cap range(blocksize * block_index, blocksize * (block_index + 1))

RECURSIVE BlockPasses(_, _, _, _)
BlockPasses(s, nblocks, k, emptyRaises) ==
  IF k = 0 THEN << >>
  ELSE LET prev == BlockPasses(s, nblocks, k - 1, emptyRaises)
           blocksize == s.niterations \div nblocks
       IN  IF Len(prev) > 0 /\ Raised(prev[Len(prev)].eig) THEN prev
           ELSE Append(prev,
                  MixingPass("block", k - 1, s, BlockLo(blocksize, k - 1),
                             BlockHi(blocksize, k - 1), emptyRaises, TRUE))

show_mixing_statistics_with_error(s, nblocks, emptyRaises) ==
  LET blocks == BlockPasses(s, nblocks, nblocks, emptyRaises)
      failed == \E b \in 1..Len(blocks) : Raised(blocks[b].eig)
      whole == MixingPass("whole", 0, s, 0, s.niterations - 1, emptyRaises, TRUE)
      base == [NoResult EXCEPT !.fn = "show_mixing_statistics_with_error",
                               !.nblocks = nblocks]
  IN  IF failed
        THEN [base EXCEPT !.mats = blocks,
                          !.outcome = blocks[Len(blocks)].eig]
      ELSE IF Raised(whole.eig)
        THEN [base EXCEPT !.mats = Append(blocks, whole),
                          !.outcome = whole.eig]
      ELSE [base EXCEPT
              !.mats = Append(blocks, whole),
              !.outcome = "returned",
              !.printed = Printed(whole.eig),
              !.tau = whole.tau,
              !.dtau = IF \E b \in 1..Len(blocks) : blocks[b].tau = "inf"
                         THEN "nan" ELSE "finite"]

\* ------------------------------------------------ compute_relaxation_time
compute_relaxation_time(bin_it, nbins, emptyRaises) ==
  LET pairs == BinPairs(bin_it)
      N == Accumulate(zeros(nbins), pairs, Len(pairs))
      T == NormalizeRowsGuarded(N, nbins)
      eig == SecondEigenvalue(T, nbins, emptyRaises)
      m == Pass("whole", 0, 0, bin_it.niterations - 1, pairs, nbins, N, T, eig,
                IF Raised(eig) THEN "none" ELSE Timescale(eig))
  IN  [NoResult EXCEPT
         !.fn = "compute_relaxation_time",
         !.nbins = nbins,
         !.mats = << m >>,
         !.outcome = IF Raised(eig) THEN eig ELSE "returned",
         !.tau = m.tau]

\* ------------------------------------------------ average_end_to_end_time
None == -1

\* One pass of the loop body for column `state` at `iteration`.  An event
\* keeps, next to the duration the code appends, the column and the two
\* iterations it was computed from.
EndpointStepEveryVisit(acc, s, state, iteration) ==
  LET v == s.at[iteration][state]
  IN  IF v \in {0, s.nstates - 1}
        THEN IF acc.last_endpoint = None
               THEN [acc EXCEPT !.last_endpoint = iteration]
             ELSE IF s.at[acc.last_endpoint][state] # v
               THEN [last_endpoint |-> iteration,
                     events |-> Append(acc.events,
                                  [state |-> state, iteration |-> iteration,
                                   last_endpoint |-> acc.last_endpoint,
                                   duration |-> iteration - acc.last_endpoint])]
             ELSE [acc EXCEPT !.last_endpoint = iteration]
        ELSE acc

EndpointStep(acc, s, state, iteration) ==
  LET v == s.at[iteration][state]
  IN  IF v \in {0, s.nstates - 1}
        THEN IF acc.last_endpoint = None
               THEN [acc EXCEPT !.last_endpoint = iteration]
             ELSE IF s.at[acc.last_endpoint][state] # v
               THEN [last_endpoint |-> iteration,
                     events |-> Append(acc.events,
                                  [state |-> state, iteration |-> iteration,
                                   last_endpoint |-> acc.last_endpoint,
                                   duration |-> iteration - acc.last_endpoint])]
             ELSE acc
        ELSE acc

\* The two nested loops, m steps in: state outer, iteration inner, with
\* last_endpoint = None at the top of every column.
ScanStep(acc, s, m) ==
  LET state == (m - 1) \div s.niterations
      iteration == (m - 1) % s.niterations
      top == IF iteration = 0
               THEN [acc EXCEPT !.last_endpoint = None] ELSE acc
  IN  EndpointStep(top, s, state, iteration)

RECURSIVE ScanRange(_, _, _, _)
ScanRange(acc, s, lo, hi) ==
  IF lo > hi THEN acc
  ELSE IF lo = hi THEN ScanStep(acc, s, lo)
  ELSE LET mid == (lo + hi) \div 2
           first == ScanRange(acc, s, lo, mid)
       IN  IF Len(first.events) >= 0
             THEN ScanRange(first, s, mid + 1, hi)
             ELSE first

Scan(s, m) == ScanRange([last_endpoint |-> None, events |-> << >>], s, 1, m)

Durations(ev) == [k \in 1..Len(ev) |-> ev[k].duration]
Squares(ev) == [k \in 1..Len(ev) |-> ev[k].duration * ev[k].duration]

\* tau_end = events.mean(); dtau_end = events.std() / sqrt(events.size).
\* dtau_end2 is dtau_end squared: variance / size.
average_end_to_end_time(s) ==
  LET events == Scan(s, s.nstates * s.niterations).events
      size == Len(events)
      total == SumRange(Durations(events), 1, size)
      squares == SumRange(Squares(events), 1, size)
  IN  [NoResult EXCEPT
         !.fn = "average_end_to_end_time",
         !.outcome = "returned",
         !.events = events,
         !.tau_end = Frac(total, size),
         !.dtau_end2 = Frac(size * squares - total * total, size * size * size)]

\* ------------------------------------------------------------------ state
\* states, last   the array under analysis and the result of the latest
\*                estimator call
\* pc             "call", "returned": an estimator is about to be called
\*                directly on states, or the call is over; otherwise the
\*                position of the batch driver
\* prefix         index into prefixes of the archive being analysed
\* report         per prefix: "pending", "analysed" (its result line was
\*                printed) or "failed" (an exception left its analysis)
\* slices         the iterations of the blocks the driver last sliced
VARIABLES states, last, pc, prefix, report, slices

vars == << states, last, pc, prefix, report, slices >>

Transpose(s) ==
  [niterations |-> s.niterations, nstates |-> s.nstates,
   at |-> [r \in range(0, s.nstates) |->
             [t \in range(0, s.niterations) |-> s.at[t][r]]]]

\* eigvals of a 0 x 0 matrix raises LinAlgError in some numpy releases and
\* returns an empty vector in others; both are kept.
EmptyChoices(n) == IF n = 0 THEN BOOLEAN ELSE {FALSE}

EmptyArray == [niterations |-> 0, nstates |-> 0, at |-> << >>]

\* ------------------------------------------------- the estimators as calls
CallInit ==
  /\ states \in StatesArrays
  /\ last = NoResult
  /\ pc = "call"
  /\ prefix = 0
  /\ report = [a \in range(0, NPrefixes) |-> "pending"]
  /\ slices = << >>

CallShowMixingStatistics ==
  /\ pc = "call"
  /\ \E emptyRaises \in EmptyChoices(states.nstates) :
       last' = show_mixing_statistics(states, emptyRaises)
  /\ pc' = "returned"
  /\ UNCHANGED << states, prefix, report, slices >>

CallShowMixingStatisticsWithError ==
  /\ pc = "call"
  /\ \E nblocks \in 1..MaxBlocks, emptyRaises \in EmptyChoices(states.nstates) :
       last' = show_mixing_statistics_with_error(states, nblocks, emptyRaises)
  /\ pc' = "returned"
  /\ UNCHANGED << states, prefix, report, slices >>

CallComputeRelaxationTime ==
  /\ pc = "call"
  /\ \E nbins \in states.nstates .. (states.nstates + MaxExtraBins) :
     \E emptyRaises \in EmptyChoices(nbins) :
       last' = compute_relaxation_time(Transpose(states), nbins, emptyRaises)
  /\ pc' = "returned"
  /\ UNCHANGED << states, prefix, report, slices >>

CallAverageEndToEndTime ==
  /\ pc = "call"
  /\ last' = average_end_to_end_time(states)
  /\ pc' = "returned"
  /\ UNCHANGED << states, prefix, report, slices >>

\* ------------------------------------------------------- the batch driver
\* Archives the driver may find on disk: every replica moves one state up
\* (cyclically) every k iterations, or never moves.
Cyclic(n, w, k) ==
  [niterations |-> n, nstates |-> w,
   at |-> [t \in range(0, n) |-> [r \in range(0, w) |-> (r + (t \div k)) % w]]]

Sticky(n, w) ==
  [niterations |-> n, nstates |-> w,
   at |-> [t \in range(0, n) |-> [r \in range(0, w) |-> r]]]

DriverLengths == {0} \cup { 2 * DriverNBlocks + e : e \in 0..MaxExtraIter }

DriverArchives ==
  { Cyclic(n, w, k) : n \in DriverLengths, w \in 1..MaxDriverStates, k \in 1..MaxPeriod }
    \cup { Sticky(n, w) : n \in DriverLengths, w \in 0..MaxDriverStates }

\* Binned torsions of the open archive, indexed [replica, iteration]: every
\* replica stays in the middle bin (step 0) or moves one bin per iteration.
TorsionSteps == {0, 1}

TorsionBins(s, step) ==
  [niterations |-> s.niterations, nstates |-> s.nstates,
   at |-> [r \in range(0, s.nstates) |->
             [t \in range(0, s.niterations) |->
                (DriverNBins \div 2 + step * (r + t)) % DriverNBins]]]

DriverSlices(niterations) ==
  [b \in 1..DriverNBlocks |-> BlockSlice(niterations, DriverNBlocks, b - 1)]

\* An exception that no handler catches ends the script.
Abort ==
  /\ pc' = "aborted"
  /\ report' = [report EXCEPT ![prefix] = "failed"]
  /\ UNCHANGED prefix

DriverInit ==
  /\ states = EmptyArray
  /\ last = NoResult
  /\ pc = "open"
  /\ prefix = 0
  /\ report = [a \in range(0, NPrefixes) |-> "pending"]
  /\ slices = << >>

\* for prefix in prefixes: ncfile = netcdf.Dataset(...); read the dimensions
DriverOpen ==
  /\ pc = "open"
  /\ \/ /\ \E a \in DriverArchives : states' = a
        /\ pc' = "mixing"
        /\ UNCHANGED << prefix, report >>
     \/ /\ Abort
        /\ UNCHANGED states
  /\ last' = NoResult
  /\ slices' = << >>

\* [tau2, dtau2] = show_mixing_statistics_with_error(ncfile)
DriverMixing ==
  /\ pc = "mixing"
  /\ \E emptyRaises \in EmptyChoices(states.nstates) :
       last' = show_mixing_statistics_with_error(states, DefaultNBlocks, emptyRaises)
  /\ IF last'.outcome = "returned"
       THEN pc' = "state_correlation" /\ UNCHANGED << prefix, report >>
       ELSE Abort
  /\ UNCHANGED << states, slices >>

\* correlation time of the state index, whole and per block; the
\* statistical-inefficiency routine is external and may raise
DriverStateCorrelation ==
  /\ pc = "state_correlation"
  /\ slices' = DriverSlices(states.niterations)
  /\ \/ pc' = "end_to_end" /\ UNCHANGED << prefix, report >>
     \/ Abort
  /\ UNCHANGED << states, last >>

\* [tau_end, dtau_end] = average_end_to_end_time(states)
DriverEndToEnd ==
  /\ pc = "end_to_end"
  /\ last' = average_end_to_end_time(states)
  /\ pc' = "torsions"
  /\ UNCHANGED << states, prefix, report, slices >>

\* statistical inefficiency of the reduced potential, torsions and their
\* per-block correlation times; external routines and archive data
DriverTorsions ==
  /\ pc = "torsions"
  /\ slices' = DriverSlices(states.niterations)
  /\ \/ pc' = "relaxation" /\ UNCHANGED << prefix, report >>
     \/ Abort
  /\ UNCHANGED << states, last >>

\* tau_phi, tau_psi = compute_relaxation_time(..., nbins); the result line
\* is printed and the loop moves to the next prefix
DriverRelaxation ==
  /\ pc = "relaxation"
  /\ \E step \in TorsionSteps :
       last' = compute_relaxation_time(TorsionBins(states, step), DriverNBins, FALSE)
  /\ report' = [report EXCEPT ![prefix] = "analysed"]
  /\ prefix' = prefix + 1
  /\ pc' = IF prefix + 1 = NPrefixes THEN "done" ELSE "open"
  /\ UNCHANGED << states, slices >>

Init == CallInit \/ DriverInit

Next ==
  \/ CallShowMixingStatistics
  \/ CallShowMixingStatisticsWithError
  \/ CallComputeRelaxationTime
  \/ CallAverageEndToEndTime
  \/ DriverOpen
  \/ DriverMixing
  \/ DriverStateCorrelation
  \/ DriverEndToEnd
  \/ DriverTorsions
  \/ DriverRelaxation

Spec == Init /\ [][Next]_vars

\* ================================================================ claims
Passes == { last.mats[k] : k \in 1..Len(last.mats) }
Rows(p) == range(0, p.n)

RECURSIVE FracSumRange(_, _, _)
FracSumRange(row, lo, hi) ==
  IF lo > hi THEN Zero
  ELSE IF lo = hi THEN row[lo]
  ELSE LET mid == (lo + hi) \div 2
       IN  FracAdd(FracSumRange(row, lo, mid), FracSumRange(row, mid + 1, hi))

RowSumsToOne(p, i) == FracEq(FracSumRange(p.Tij[i], 0, p.n - 1), One)

IdentityRow(p, i) ==
  \A j \in Rows(p) : FracEq(p.Tij[i][j], IF j = i THEN One ELSE Zero)

Symmetric(N, n) == \A i, j \in range(0, n) : N[i][j] = N[j][i]

\* Nij after each pass of the loop body over pairs[lo..hi], starting from N.
RECURSIVE AccumulateTrace(_, _, _, _)
AccumulateTrace(N, pairs, lo, hi) ==
  IF lo > hi THEN << >>
  ELSE IF lo = hi THEN << AddPair(N, pairs[lo]) >>
  ELSE LET mid == (lo + hi) \div 2
           first == AccumulateTrace(N, pairs, lo, mid)
       IN  IF Len(first) > 0
             THEN first \o AccumulateTrace(first[Len(first)], pairs, mid + 1, hi)
             ELSE first

\* At least two states and two iterations: the input has a transition.
WellFormed == states.nstates >= 2 /\ states.niterations >= 2

\* C1: every row of every transition-probability matrix the estimators
\* build (whole data set, every block, binned coordinates) sums to 1, for
\* every trajectory of valid state indices; stated here for the well-formed
\* ones.
C1_RowsSumToOne ==
  WellFormed => \A p \in Passes : \A i \in Rows(p) : RowSumsToOne(p, i)

\* C2: a state or bin with zero total transition count has the identity row
\* in Tij, in every matrix the estimators build.
C2_UnvisitedRowIsIdentity ==
  WellFormed =>
    \A p \in Passes : \A i \in Rows(p) :
      RowSum(p.Nij, p.n, i) = 0 => IdentityRow(p, i)

\* C3: when the second-largest eigenvalue is >= 1, no estimator evaluates
\* 1/(1 - mu[1]) for a block or returns it: the timescale is left undefined.
C3_NoTimescaleWhenDecomposable ==
  WellFormed =>
    /\ \A p \in Passes : p.eig = "unity" => p.tau = "none"
    /\ (\E p \in Passes : p.kind = "whole" /\ p.eig = "unity")
         => last.tau = "none" /\ last.dtau = "none"

\* C4: with zero end-to-end events average_end_to_end_time reports
\* insufficient data; it does not return a mean and error taken over nothing.
C4_NoEventsIsInsufficientData ==
  (WellFormed /\ last.fn = "average_end_to_end_time" /\ Len(last.events) = 0)
    => /\ last.outcome = "InsufficientData"
       /\ ~IsNaN(last.tau_end)
       /\ ~IsNaN(last.dtau_end2)

\* C5: the count matrix is symmetric after every accumulation step and at
\* the end, in every pass; a step for the pair (i, j) adds one half to
\* Nij[i,j] and to Nij[j,i], hence a whole count to Nij[i,i] when i = j.
C5_NijSymmetric ==
  \A p \in Passes :
    LET trace == AccumulateTrace(zeros(p.n), p.pairs, 1, Len(p.pairs))
        At(m) == IF m = 0 THEN zeros(p.n) ELSE trace[m]
    IN  /\ Symmetric(p.Nij, p.n)
        /\ Len(trace) = Len(p.pairs)
        /\ p.Nij = At(Len(p.pairs))
        /\ \A m \in 1..Len(p.pairs) :
             LET i == p.pairs[m][1]
                 j == p.pairs[m][2]
             IN  /\ Symmetric(At(m), p.n)
                 /\ At(m)[i][j] - At(m - 1)[i][j] = (IF i = j THEN 2 ELSE 1)
                 /\ At(m)[j][i] - At(m - 1)[j][i] = (IF i = j THEN 2 ELSE 1)

C5_Witness ==
  /\ last.fn = "show_mixing_statistics_with_error"
  /\ last.outcome = "returned"
  /\ \E p \in Passes : p.kind = "block" /\
       \E i, j \in Rows(p) : i # j /\ p.Nij[i][j] > 0 /\ p.Nij[i][i] > 0

\* Every column holds s0, ..., s0 (k times), 1 - s0, ... : a switch at
\* every multiple of k.
Alternates(s, k) ==
  /\ s.nstates = 2
  /\ s.niterations > k
  /\ \A r \in range(0, s.nstates), t \in range(0, s.niterations) :
       s.at[t][r] = (s.at[0][r] + (t \div k)) % 2

\* C6: for a 2-state trajectory that switches every k iterations, with at
\* least one switch, every end-to-end event lasts k, so the mean is k and
\* the standard error is 0.
C6_AlternatingTwoState ==
  \A k \in 1..MaxIter :
    (last.fn = "average_end_to_end_time" /\ Alternates(states, k))
      => /\ Len(last.events) > 0
         /\ \A e \in 1..Len(last.events) : last.events[e].duration = k
         /\ FracEq(last.tau_end, Frac(k, 1))
         /\ FracEq(last.dtau_end2, Zero)

C6_Witness ==
  /\ last.fn = "average_end_to_end_time"
  /\ Alternates(states, 2)
  /\ Len(last.events) >= 4

\* C7: a failure while analysing one archive is reported for that archive
\* and does not abort the run: the archives after it are still analysed, so
\* a run that has ended has left no archive pending.
C7_FailureDoesNotAbort ==
  /\ \A a \in range(0, NPrefixes) : report[a] = "failed" => pc # "aborted"
  /\ pc \in {"done", "aborted"} =>
       \A a \in range(0, NPrefixes) : report[a] # "pending"

\* C9: with fewer than 2 states or no iterations every estimator ends in a
\* validation error.
C9_MalformedDimensionsRejected ==
  (last.fn # "none" /\ (states.nstates < 2 \/ states.niterations = 0))
    => last.outcome = "ValidationError"

\* The iterations of block b: [b * blocksize, (b + 1) * blocksize).
Window(niterations, nblocks, b) ==
  LET blocksize == niterations \div nblocks
  IN  { t \in range(0, niterations) : b * blocksize <= t /\ t < (b + 1) * blocksize }

\* The iterations one pass reads from states: iteration and iteration + 1.
ReadIterations(p) == UNION { { t, t + 1 } : t \in range(p.lo, p.hi) }

BlockPassOf(b) == CHOOSE p \in Passes : p.kind = "block" /\ p.block = b
BlocksDone == { p.block : p \in { q \in Passes : q.kind = "block" } }

\* C8: blocksize = floor(n / nblocks); block b is built from exactly the
\* adjacent pairs inside [b*blocksize, (b+1)*blocksize) and is sliced as
\* exactly that window by the driver; the windows have the same length, are
\* contiguous and pairwise disjoint, and the n mod nblocks iterations at the
\* end are in no window and are read by no block.
C8_BlocksContiguousEqualDisjoint ==
  (last.fn = "show_mixing_statistics_with_error" \/ slices # << >>) =>
    LET n == states.niterations
        nb == IF last.nblocks > 0 THEN last.nblocks ELSE DriverNBlocks
        blocksize == n \div nb
        W(b) == Window(n, nb, b)
        tail == { t \in range(0, n) : t >= nb * blocksize }
    IN  /\ \A b \in BlocksDone :
             LET p == BlockPassOf(b)
             IN  /\ range(p.lo, p.hi) = { t \in W(b) : t + 1 \in W(b) }
                 /\ Len(p.pairs) = states.nstates * Cardinality(range(p.lo, p.hi))
                 /\ ReadIterations(p) \subseteq W(b)
                 /\ blocksize >= 2 => ReadIterations(p) = W(b)
                 /\ ReadIterations(p) \cap tail = {}
                 /\ \A c \in BlocksDone :
                      c # b => ReadIterations(p) \cap ReadIterations(BlockPassOf(c)) = {}
        /\ \A b \in range(0, nb) :
             /\ W(b) = range(b * blocksize, (b + 1) * blocksize)
             /\ Cardinality(W(b)) = blocksize
             /\ BlockSlice(n, nb, b) = W(b)
             /\ W(b) \cap tail = {}
             /\ \A c \in range(0, nb) : c # b => W(b) \cap W(c) = {}
        /\ Cardinality(tail) = n % nb
        /\ UNION { W(b) : b \in range(0, nb) } \cup tail = range(0, n)
        /\ slices # << >> =>
             /\ Len(slices) = DriverNBlocks
             /\ \A b \in range(0, DriverNBlocks) :
                  /\ slices[b + 1] = Window(n, DriverNBlocks, b)
                  /\ Cardinality(slices[b + 1]) = n \div DriverNBlocks
                  /\ \A c \in range(0, DriverNBlocks) :
                       c # b => slices[b + 1] \cap slices[c + 1] = {}
                  /\ \A t \in slices[b + 1] :
                       t < DriverNBlocks * (n \div DriverNBlocks)

C8_Witness ==
  /\ last.fn = "show_mixing_statistics_with_error"
  /\ last.outcome = "returned"
  /\ last.nblocks = 2
  /\ states.niterations = 5
  /\ Cardinality(BlocksDone) = 2

\* C10 -------------------------------------------------------------------
Boundary(s, v) == v \in {0, s.nstates - 1}

EventsOf(r) == { k \in 1..Len(last.events) : last.events[k].state = r }

Max(S) == CHOOSE x \in S : \A y \in S : y <= x
Min(S) == CHOOSE x \in S : \A y \in S : x <= y

\* The reference endpoint in force when column r reaches iteration t: the
\* iteration of the column's latest earlier event, else the column's first
\* earlier visit to a boundary state, else unset.
Reference(r, t) ==
  LET emitted == { last.events[k].iteration : k \in { e \in EventsOf(r) : last.events[e].iteration < t } }
      visits == { u \in range(0, t) : Boundary(states, states.at[u][r]) }
  IN  IF emitted # {} THEN Max(emitted)
      ELSE IF visits # {} THEN Min(visits)
      ELSE None

\* The durations of the events in S, summed.
SumOver(S) ==
  SumRange([k \in 1..Len(last.events) |->
              IF k \in S THEN last.events[k].duration ELSE 0],
           1, Len(last.events))

\* Per column, scanned in iteration order, an event is emitted at t exactly
\* when the column is in a boundary state at t, a reference endpoint e < t
\* exists and the state at t differs from the state at e; its duration is
\* t - e and t becomes the reference.  So durations are >= 1, the events of
\* a column alternate in direction and none spans two columns.
EventRule ==
    LET ev == last.events
        cols == range(0, states.nstates)
        its == range(0, states.niterations)
    IN  /\ \A r \in cols, t \in its :
             (\E k \in EventsOf(r) : ev[k].iteration = t)
               <=> /\ Boundary(states, states.at[t][r])
                   /\ Reference(r, t) # None
                   /\ states.at[t][r] # states.at[Reference(r, t)][r]
        /\ \A k \in 1..Len(ev) :
             /\ ev[k].state \in cols
             /\ ev[k].iteration \in its
             /\ ev[k].last_endpoint = Reference(ev[k].state, ev[k].iteration)
             /\ ev[k].duration = ev[k].iteration - ev[k].last_endpoint
             /\ ev[k].duration >= 1
             /\ Reference(ev[k].state, ev[k].iteration + 1) = ev[k].iteration
        /\ \A k \in 1..(Len(ev) - 1) :
             \/ ev[k].state < ev[k + 1].state
             \/ /\ ev[k].state = ev[k + 1].state
                /\ ev[k].iteration = ev[k + 1].last_endpoint
                /\ states.at[ev[k].last_endpoint][ev[k].state]
                     = states.at[ev[k + 1].iteration][ev[k].state]
                /\ states.at[ev[k].iteration][ev[k].state]
                     # states.at[ev[k + 1].iteration][ev[k].state]

TotalCount(p) ==
  SumRange([i \in 0..(p.n - 1) |-> RowSum(p.Nij, p.n, i)], 0, p.n - 1)

WholePasses == { p \in Passes : p.kind = "whole" }

\* C11: for R replicas and n >= 1 iterations the entries of the whole-data
\* Nij sum to R * (n - 1) in the two mixing estimators and in
\* compute_relaxation_time, where all replicas share one nbins x nbins
\* matrix (one step per replica and adjacent pair); every entry is a
\* non-negative multiple of 0.5 (a natural number of half counts).
C11_CountConservation ==
  states.niterations >= 1 =>
    \A p \in WholePasses :
      /\ Len(p.pairs) = states.nstates * (states.niterations - 1)
      /\ TotalCount(p) = 2 * states.nstates * (states.niterations - 1)
      /\ p.n = (IF last.fn = "compute_relaxation_time"
                  THEN last.nbins ELSE states.nstates)
      /\ \A i, j \in Rows(p) : p.Nij[i][j] \in Nat

C11_Witness ==
  /\ last.fn = "compute_relaxation_time"
  /\ states.nstates = 2
  /\ states.niterations = 3
  /\ last.nbins = 3
  /\ \E p \in WholePasses :
       /\ TotalCount(p) = 8
       /\ \E i, j \in Rows(p) : i # j /\ p.Nij[i][j] = 2 /\ p.Nij[i][i] = 2

BlockPassSet == { p \in Passes : p.kind = "block" }

\* The steps (t, replica) with t and t + 1 both in window W on which the
\* replica goes from state i to state j.
InsideSteps(W, i, j) ==
  { x \in W \X range(0, states.nstates) :
      /\ x[1] + 1 \in W
      /\ states.at[x[1]][x[2]] = i
      /\ states.at[x[1] + 1][x[2]] = j }

\* C12: in show_mixing_statistics_with_error the count matrix of block b is
\* built only from the pairs (t, t+1) with t and t+1 inside block b, exactly
\* blocksize - 1 pairs per replica when blocksize >= 1; no pair straddling
\* two blocks is counted, and every index t+1 read from states is at most
\* niterations - 1, for every niterations >= 0 and nblocks >= 1.
C12_BlockIsolation ==
  (last.fn = "show_mixing_statistics_with_error" /\ last.nblocks >= 1) =>
    LET n == states.niterations
        blocksize == n \div last.nblocks
    IN  /\ \A p \in BlockPassSet :
             LET W == Window(n, last.nblocks, p.block)
                 steps == range(p.lo, p.hi)
             IN  /\ \A t \in steps : t \in W /\ t + 1 \in W
                 /\ \A t \in steps : \A c \in range(0, last.nblocks) :
                      c # p.block =>
                        /\ t \notin Window(n, last.nblocks, c)
                        /\ t + 1 \notin Window(n, last.nblocks, c)
                 /\ blocksize >= 1 =>
                      /\ Cardinality(steps) = blocksize - 1
                      /\ Len(p.pairs) = states.nstates * (blocksize - 1)
                 /\ blocksize = 0 => Len(p.pairs) = 0
                 /\ \A i, j \in Rows(p) :
                      p.Nij[i][j] = Cardinality(InsideSteps(W, i, j))
                                     + Cardinality(InsideSteps(W, j, i))
        /\ \A p \in Passes : \A t \in range(p.lo, p.hi) :
             0 <= t /\ t + 1 <= n - 1

\* Two blocks of two iterations; the last block reads up to index
\* niterations - 1, and some replica changes state across the block
\* boundary, a transition found in no block's counts.
C12_Witness ==
  /\ last.fn = "show_mixing_statistics_with_error"
  /\ last.nblocks = 2
  /\ states.niterations = 4
  /\ states.nstates = 2
  /\ Cardinality(BlockPassSet) = 2
  /\ \E p \in BlockPassSet : p.hi = states.niterations - 1
  /\ \E r \in range(0, 2) :
       /\ states.at[1][r] # states.at[2][r]
       /\ \A p \in BlockPassSet : p.Nij[states.at[1][r]][states.at[2][r]] = 0

====
